---- MODULE Spec2Model ----
(***************************************************************************)
(* The wgpu surface lifecycle of src/lib.rs: one WgpuContext behind an     *)
(* async Mutex, and the four operations that take the lock: setup,         *)
(* clean_surface, the Resized handler's body (resize) and draw.            *)
(*                                                                         *)
(* Spec runs the operations as tasks dispatched from several threads, in   *)
(* any order and interleaving.  LoopSpec runs them as run's event loop     *)
(* does: one thread, which blocks on the task of each event before it      *)
(* takes the next.  FairSpec is Spec with the fairness of the lock and of   *)
(* the tasks.  The android build is modelled (the cfg branches that read   *)
(* ndk_glue::native_window()); the other build is the case where the       *)
(* native window is always there.                                          *)
(***************************************************************************)
EXTENDS Naturals, Sequences, FiniteSets

\* Bounds of the model.
NumThreads == 2
MaxSurfaces == 2
MaxChains == 3
MaxEvents == 4

Threads == 1..NumThreads
NoThread == 0
\* Option::None for a handle; provider objects are numbered from 1.
None == 0
\* PhysicalSize values: window.inner_size() and the Resized event's size.
Sizes == {[width |-> 800, height |-> 600], [width |-> 640, height |-> 480]}
\* The operations a task runs, with the argument of resize.
Tasks == [op : {"setup", "clean_surface", "draw"}, size : {None}]
           \cup [op : {"resize"}, size : Sizes]
NoTask == [op |-> "none", size |-> None]
NoLocal == [surface |-> None, adapter |-> None]
\* The thread that calls event_loop.run
LoopThread == 1
\* The events run's closure matches on, with the size of Resized
Events == [kind : {"Init", "Resumed", "Suspended", "RedrawRequested",
                   "CloseRequested", "MainEventsCleared"}, size : {None}]
            \cup [kind : {"Resized"}, size : Sizes]
NoEvent == [kind |-> "none", size |-> None]

VARIABLES
    stage,    \* WgpuContext.stage: WgpuStage::Init or WgpuStage::Ready(InnerContext)
    lock,     \* the holder of the async Mutex around the context, or NoThread
    pc,       \* each thread's position in its task
    task,     \* each thread's task
    local,    \* setup's locals kept across its awaits: surface, adapter
    window,   \* the host window: native (ndk_glue::native_window().is_some()), size
    made,     \* how many objects of each kind the provider has created
    effect,   \* the latest critical-section step: task, branch, calls, stage before
    crashed,  \* a panic has ended the process
    loop      \* run's event loop: control_flow, the event in hand, the operations
              \* its handler has still to run, and the log of the events handled

vars == <<stage, lock, pc, task, local, window, made, effect, crashed, loop>>

\* WgpuStage
StageInit == [tag |-> "Init"]
StageReady(inner) == [tag |-> "Ready", inner |-> inner]

\* WgpuStage::not_ready
not_ready(s) == s.tag # "Ready"

\* run's swapchain_format argument, wgpu::TextureFormat::Rgba8Unorm in main
swapchain_format == "Rgba8Unorm"

\* A descriptor with the window's width and height the wrong way round
SwapChainDescriptor_swapped(size) ==
    [usage |-> "OUTPUT_ATTACHMENT", format |-> swapchain_format,
     width |-> size.height, height |-> size.width, present_mode |-> "Mailbox"]

\* wgpu::SwapChainDescriptor as setup builds it from the window's size
SwapChainDescriptor(size) ==
    [usage |-> "OUTPUT_ATTACHMENT", format |-> swapchain_format,
     width |-> size.width, height |-> size.height, present_mode |-> "Mailbox"]

\* device.create_swap_chain(surface, &sc_desc): a new chain, bound to the
\* surface and the descriptor it was created with
create_swap_chain(surface, desc) ==
    [id |-> made.swap_chain + 1, surface |-> surface, desc |-> desc]

\* instance.create_surface(&*window): a new surface
create_surface == made.surface + 1

\* A resize has found no surface and dropped its size, and no setup has stored
\* a surface since
Dropped ==
    \/ effect.task.op = "resize" /\ effect.calls = <<>>
    \/ effect.dropped /\ effect.branch \notin {"setup_ok", "ready_surface"}

\* What a step of a task's critical section did: the task, the branch of the
\* code it took, the provider calls it made, the stage it started from, and
\* whether it came after a dropped resize
Effect(t, branch, calls) ==
    [task |-> task[t], branch |-> branch, calls |-> calls, before |-> stage,
     dropped |-> Dropped]

\* Dropping the MutexGuard at the end of the task
\* A guard that is leaked instead of dropped
Release_leaks(t) ==
    /\ lock' = lock
    /\ pc' = [pc EXCEPT ![t] = "idle"]
    /\ task' = [task EXCEPT ![t] = NoTask]
    /\ local' = [local EXCEPT ![t] = NoLocal]

Release(t) ==
    /\ lock' = NoThread
    /\ pc' = [pc EXCEPT ![t] = "idle"]
    /\ task' = [task EXCEPT ![t] = NoTask]
    /\ local' = [local EXCEPT ![t] = NoLocal]

\* An expect that logs the failure and lets the task return
Panic_swallowed(t) ==
    /\ crashed' = FALSE
    /\ Release(t)
    /\ UNCHANGED <<stage, window, made>>

\* .expect(..) on None / Err: the panic ends the process
Panic(t) ==
    /\ crashed' = TRUE
    /\ pc' = [pc EXCEPT ![t] = "panicked"]
    /\ UNCHANGED <<stage, lock, task, local, window, made>>

Init ==
    /\ stage = StageInit
    /\ lock = NoThread
    /\ pc = [t \in Threads |-> "idle"]
    /\ task = [t \in Threads |-> NoTask]
    /\ local = [t \in Threads |-> NoLocal]
    /\ window \in [native : BOOLEAN, size : Sizes]
    /\ made = [surface |-> 0, adapter |-> 0, device |-> 0, pipeline |-> 0,
               swap_chain |-> 0]
    /\ effect = [task |-> NoTask, branch |-> "none", calls |-> <<>>,
                 before |-> StageInit, dropped |-> FALSE]
    /\ crashed = FALSE
    /\ loop = [control_flow |-> "Wait", event |-> NoEvent, todo |-> <<>>,
               log |-> <<>>]

\* The tasks in flight that may still create a surface, or a swap chain: the
\* bounds MaxSurfaces and MaxChains stop the dispatch of more of them.
PendingSurface ==
    Cardinality({t \in Threads : pc[t] \in {"wait", "cs"} /\ task[t].op = "setup"})
PendingChain ==
    Cardinality({t \in Threads : /\ pc[t] \in {"wait", "cs", "adapter", "device"}
                                 /\ \/ task[t].op = "resize"
                                    \/ task[t].op = "setup" /\ stage.tag = "Init"})
WithinBounds(k) ==
    /\ k.op = "setup" => made.surface + PendingSurface < MaxSurfaces
    /\ (k.op = "resize" \/ (k.op = "setup" /\ stage.tag = "Init"))
          => made.swap_chain + PendingChain < MaxChains

\* An event handler hands a task to a thread, which starts context.lock().await
Dispatch(t, k) ==
    /\ ~crashed
    /\ pc[t] = "idle"
    /\ WithinBounds(k)
    /\ pc' = [pc EXCEPT ![t] = "wait"]
    /\ task' = [task EXCEPT ![t] = k]
    /\ UNCHANGED <<stage, lock, local, window, made, effect, crashed>>

\* A lock that lets a second task in while the first holds it
CanLock_racy(t) == TRUE

\* The Mutex can be taken: nobody holds it
CanLock(t) == lock = NoThread

\* context.lock().await completes: the Mutex is free and t takes it
Acquire(t) ==
    /\ ~crashed
    /\ pc[t] = "wait"
    /\ CanLock(t)
    /\ lock' = t
    /\ pc' = [pc EXCEPT ![t] = "cs"]
    /\ UNCHANGED <<stage, task, local, window, made, effect, crashed>>

\* The Init branch's `init` of the other build, which never asks for the window
setup_init_no_cfg(s, w) == not_ready(s)

\* setup's `init` in the Init branch (android): the stage is not ready and the
\* native window is there
setup_init(s, w) == not_ready(s) /\ w.native

\* A Ready branch's `init` that forgets to ask whether the surface is gone
setup_ready_init_always(s, w) == w.native

\* setup's `init` in the Ready branch (android): the surface is gone and the
\* native window is there
setup_ready_init(s, w) == s.inner.surface = None /\ w.native

\* A Ready branch that requests the device and queue again with the surface
setup_ready_rebuild(s) ==
    [s EXCEPT !.inner.surface = create_surface,
              !.inner.device = @ + 1, !.inner.queue = @ + 1]

\* A Ready branch that also creates the swap chain again, on the new surface
setup_ready_rechain(s) ==
    [s EXCEPT !.inner.surface = create_surface,
              !.inner.swap_chain = create_swap_chain(create_surface, s.inner.sc_desc)]

\* setup's Ready branch with init: inner.surface = Some(create_surface(..))
setup_ready_surface(s) == [s EXCEPT !.inner.surface = create_surface]

\* setup, from the lock to the first await or to its end
setup_start(t) ==
    /\ ~crashed
    /\ pc[t] = "cs" /\ lock = t /\ task[t].op = "setup"
    /\ IF stage.tag = "Init"
       THEN IF setup_init(stage, window)
            THEN \* create_surface, then request_adapter(..).await
                 /\ made' = [made EXCEPT !.surface = @ + 1]
                 /\ local' = [local EXCEPT ![t].surface = create_surface]
                 /\ pc' = [pc EXCEPT ![t] = "adapter"]
                 /\ effect' = Effect(t, "init_surface",
                                     <<"create_surface", "request_adapter">>)
                 /\ UNCHANGED <<stage, lock, task, window, crashed>>
            ELSE /\ effect' = Effect(t, "init_no_window", <<>>)
                 /\ Release(t)
                 /\ UNCHANGED <<stage, window, made, crashed>>
       ELSE IF setup_ready_init(stage, window)
            THEN /\ stage' = setup_ready_surface(stage)
                 /\ made' = [made EXCEPT !.surface = @ + 1]
                 /\ effect' = Effect(t, "ready_surface", <<"create_surface">>)
                 /\ Release(t)
                 /\ UNCHANGED <<window, crashed>>
            ELSE /\ effect' = Effect(t, "ready_noop", <<>>)
                 /\ Release(t)
                 /\ UNCHANGED <<stage, window, made, crashed>>

\* request_adapter(..).await returns: Some(adapter), or None and expect panics
setup_adapter(t) ==
    /\ ~crashed
    /\ pc[t] = "adapter" /\ lock = t
    /\ \/ /\ made' = [made EXCEPT !.adapter = @ + 1]
          /\ local' = [local EXCEPT ![t].adapter = made.adapter + 1]
          /\ pc' = [pc EXCEPT ![t] = "device"]
          /\ effect' = Effect(t, "adapter_ok", <<"request_device">>)
          /\ UNCHANGED <<stage, lock, task, window, crashed>>
       \/ /\ effect' = Effect(t, "adapter_panic", <<>>)
          /\ Panic(t)

\* The InnerContext setup stores once the device is there: shaders, layout and
\* pipeline, the descriptor from window.inner_size(), the swap chain on the
\* surface created at the start
InnerContext(surface, adapter, size) ==
    LET device == made.device + 1
        pipeline == made.pipeline + 1
        sc_desc == SwapChainDescriptor(size)
    IN  [surface |-> surface,
         adapter |-> adapter,
         device |-> device,
         queue |-> device,
         vs_module |-> pipeline,
         fs_module |-> pipeline,
         pipeline_layout |-> pipeline,
         render_pipeline |-> pipeline,
         sc_desc |-> sc_desc,
         swap_chain |-> create_swap_chain(surface, sc_desc)]

\* request_device(..).await returns: Ok and the rest of the Init branch runs to
\* ctx.stage = WgpuStage::Ready(..), or Err and expect panics
setup_device(t) ==
    /\ ~crashed
    /\ pc[t] = "device" /\ lock = t
    /\ \/ /\ stage' = StageReady(
                 InnerContext(local[t].surface, local[t].adapter, window.size))
          /\ made' = [made EXCEPT !.device = @ + 1, !.pipeline = @ + 1,
                                  !.swap_chain = @ + 1]
          /\ effect' = Effect(t, "setup_ok",
                 <<"create_shader_module", "create_shader_module",
                   "create_pipeline_layout", "create_render_pipeline",
                   "create_swap_chain">>)
          /\ Release(t)
          /\ UNCHANGED <<window, crashed>>
       \/ /\ effect' = Effect(t, "device_panic", <<>>)
          /\ Panic(t)

\* A teardown that drops the whole context
clean_surface_resets(s) == StageInit

\* A teardown that leaves the surface where it is
clean_surface_keeps(s) == s

\* clean_surface's match: Ready takes the surface out, Init does nothing
clean_surface_stage(s) ==
    IF s.tag = "Ready" THEN [s EXCEPT !.inner.surface = None] ELSE s

clean_surface(t) ==
    /\ ~crashed
    /\ pc[t] = "cs" /\ lock = t /\ task[t].op = "clean_surface"
    /\ stage' = clean_surface_stage(stage)
    /\ effect' = Effect(t, IF stage.tag = "Ready" THEN "ready" ELSE "init", <<>>)
    /\ Release(t)
    /\ UNCHANGED <<window, made, crashed>>

\* A resize that skips the swap chain when the size is the descriptor's
resize_if_changed(s, size) ==
    IF s.tag = "Ready" /\ s.inner.surface # None
       /\ (s.inner.sc_desc.width # size.width \/ s.inner.sc_desc.height # size.height)
    THEN LET desc == [s.inner.sc_desc EXCEPT !.width = size.width,
                                             !.height = size.height]
         IN  [s EXCEPT !.inner.sc_desc = desc,
                       !.inner.swap_chain = create_swap_chain(s.inner.surface, desc)]
    ELSE s

\* A resize that keeps the size for later when the surface is gone
resize_caches(s, size) ==
    IF s.tag = "Ready"
    THEN LET desc == [s.inner.sc_desc EXCEPT !.width = size.width,
                                             !.height = size.height]
         IN  IF s.inner.surface # None
             THEN [s EXCEPT !.inner.sc_desc = desc,
                            !.inner.swap_chain =
                                create_swap_chain(s.inner.surface, desc)]
             ELSE [s EXCEPT !.inner.sc_desc = desc]
    ELSE s

\* The Resized handler's match: Ready with a surface sets the descriptor's
\* width and height and creates a swap chain on that surface; Ready without a
\* surface, and Init, do nothing
resize_stage(s, size) ==
    IF s.tag = "Ready" /\ s.inner.surface # None
    THEN LET desc == [s.inner.sc_desc EXCEPT !.width = size.width,
                                             !.height = size.height]
         IN  [s EXCEPT !.inner.sc_desc = desc,
                       !.inner.swap_chain = create_swap_chain(s.inner.surface, desc)]
    ELSE s

\* The swap chain the context holds, if any
held_chain(s) == IF s.tag = "Ready" THEN s.inner.swap_chain.id ELSE None

resize(t) ==
    /\ ~crashed
    /\ pc[t] = "cs" /\ lock = t /\ task[t].op = "resize"
    /\ stage' = resize_stage(stage, task[t].size)
    /\ IF held_chain(stage') # held_chain(stage)
       THEN /\ made' = [made EXCEPT !.swap_chain = @ + 1]
            /\ effect' = Effect(t, "ready_surface", <<"create_swap_chain">>)
       ELSE /\ made' = made
            /\ effect' = Effect(t,
                    IF stage.tag = "Ready" THEN "ready_no_surface" ELSE "init", <<>>)
    /\ Release(t)
    /\ UNCHANGED <<window, crashed>>

\* A draw that renders whatever the stage
draw_any_stage(s) == TRUE

\* draw's match: the Ready arm renders, the Init arm prints
draw_ready(s) == s.tag = "Ready"

\* The provider calls of draw's Ready arm once the frame is acquired
frame_calls ==
    <<"get_current_frame", "create_command_encoder", "begin_render_pass",
      "set_pipeline", "draw", "finish", "submit">>

draw(t) ==
    /\ ~crashed
    /\ pc[t] = "cs" /\ lock = t /\ task[t].op = "draw"
    /\ IF draw_ready(stage)
       THEN \/ /\ effect' = Effect(t, "frame", frame_calls)
               /\ Release(t)
               /\ UNCHANGED <<stage, window, made, crashed>>
            \/ \* get_current_frame returns Err and expect panics
               /\ effect' = Effect(t, "frame_panic", <<"get_current_frame">>)
               /\ Panic(t)
       ELSE /\ effect' = Effect(t, "init", <<>>)
            /\ Release(t)
            /\ UNCHANGED <<stage, window, made, crashed>>

\* The host creates or destroys the native window (ndk_glue::native_window())
native_window_changes ==
    /\ ~crashed
    /\ window' = [window EXCEPT !.native = ~@]
    /\ UNCHANGED <<stage, lock, pc, task, local, made, effect, crashed>>

\* The host gives the window another size (window.inner_size())
inner_size_changes ==
    /\ ~crashed
    /\ \E size \in Sizes \ {window.size} : window' = [window EXCEPT !.size = size]
    /\ UNCHANGED <<stage, lock, pc, task, local, made, effect, crashed>>

Next ==
    \/ \E t \in Threads, k \in Tasks : Dispatch(t, k) /\ UNCHANGED loop
    \/ \E t \in Threads : Acquire(t) /\ UNCHANGED loop
    \/ \E t \in Threads : setup_start(t) /\ UNCHANGED loop
    \/ \E t \in Threads : setup_adapter(t) /\ UNCHANGED loop
    \/ \E t \in Threads : setup_device(t) /\ UNCHANGED loop
    \/ \E t \in Threads : clean_surface(t) /\ UNCHANGED loop
    \/ \E t \in Threads : resize(t) /\ UNCHANGED loop
    \/ \E t \in Threads : draw(t) /\ UNCHANGED loop
    \/ native_window_changes /\ UNCHANGED loop
    \/ inner_size_changes /\ UNCHANGED loop

Spec == Init /\ [][Next]_vars

\* The steps of a task once it holds the lock: the synchronous bodies and the
\* returns of the two awaited capability calls of setup
Body(t) ==
    \/ setup_start(t) \/ setup_adapter(t) \/ setup_device(t)
    \/ clean_surface(t) \/ resize(t) \/ draw(t)

\* The scheduling the operations rely on.  A task that holds the lock keeps
\* being polled, and request_adapter / request_device return (weak fairness
\* of Body).  mutex.lock().await hands the lock to a task that keeps waiting
\* for it, however often other tasks take it in between (strong fairness of
\* Acquire).
FairSpec ==
    /\ Spec
    /\ \A t \in Threads : WF_vars(Body(t) /\ UNCHANGED loop)
    /\ \A t \in Threads : SF_vars(Acquire(t) /\ UNCHANGED loop)

(***************************************************************************)
(* run: the event loop.                                                    *)
(***************************************************************************)

SetupTask == [op |-> "setup", size |-> None]
DrawTask == [op |-> "draw", size |-> None]
CleanSurfaceTask == [op |-> "clean_surface", size |-> None]
ResizeTask(size) == [op |-> "resize", size |-> size]

\* Event::NewEvents(StartCause::Init): setup
on_init == <<SetupTask>>

\* A Resumed handler without the draw
on_resumed_setup_only == <<SetupTask>>

\* Event::Resumed: setup, then draw
on_resumed == <<SetupTask, DrawTask>>

\* A Suspended handler with its clean_surface not commented out
on_suspended_cleans == <<CleanSurfaceTask>>

\* Event::Suspended: nothing, the call of clean_surface is commented out
on_suspended == <<>>

\* WindowEvent::Resized(size): the resize with that size
on_resized(size) == <<ResizeTask(size)>>

\* A RedrawRequested handler without the setup
on_redraw_draw_only == <<DrawTask>>

\* Event::RedrawRequested: setup, then draw
on_redraw_requested == <<SetupTask, DrawTask>>

\* The operations the match arm of an event runs, in order
handler(e) ==
    CASE e.kind = "Init" -> on_init
      [] e.kind = "Resumed" -> on_resumed
      [] e.kind = "Suspended" -> on_suspended
      [] e.kind = "Resized" -> on_resized(e.size)
      [] e.kind = "RedrawRequested" -> on_redraw_requested
      [] OTHER -> <<>>

\* *control_flow: Wait at the start of the closure, Exit on CloseRequested
control_flow(e) == IF e.kind = "CloseRequested" THEN "Exit" ELSE "Wait"

\* A loop that takes the next event while the task of the last one still runs
LoopIdle_spawns == TRUE

\* The closure has returned: block_on has run the event's task to its end
LoopIdle == loop.event.kind = "none"

\* The log's entry of the event in hand
Current == Len(loop.log)

\* The loop calls the closure with the next event; StartCause::Init comes
\* first and once, and nothing comes after ControlFlow::Exit
event_arrives(e) ==
    /\ ~crashed
    /\ loop.control_flow = "Wait"
    /\ LoopIdle
    /\ Len(loop.log) < MaxEvents
    /\ e.kind = "Init" <=> loop.log = <<>>
    /\ \A i \in 1..Len(handler(e)) : WithinBounds(handler(e)[i])
    /\ loop' = [control_flow |-> control_flow(e), event |-> e,
                todo |-> handler(e),
                log |-> Append(loop.log, [ev |-> e, ran |-> <<>>, done |-> FALSE,
                                          before |-> stage, after |-> stage])]
    /\ UNCHANGED <<stage, lock, pc, task, local, window, made, effect, crashed>>

\* The event's task calls its next operation, which starts context.lock().await
handler_calls ==
    /\ ~crashed
    /\ ~LoopIdle /\ loop.todo # <<>>
    /\ pc[LoopThread] = "idle"
    /\ pc' = [pc EXCEPT ![LoopThread] = "wait"]
    /\ task' = [task EXCEPT ![LoopThread] = Head(loop.todo)]
    /\ loop' = [loop EXCEPT !.todo = Tail(@)]
    /\ UNCHANGED <<stage, lock, local, window, made, effect, crashed>>

\* The event's task is over: block_on and the closure return
handler_returns ==
    /\ ~crashed
    /\ ~LoopIdle /\ loop.todo = <<>>
    /\ pc[LoopThread] = "idle"
    /\ loop' = [loop EXCEPT !.event = NoEvent,
                            !.log[Current].done = TRUE,
                            !.log[Current].after = stage]
    /\ UNCHANGED <<stage, lock, pc, task, local, window, made, effect, crashed>>

\* The log takes the effect of an operation, and the stage it leaves, when it
\* returns
Logged ==
    loop' = IF pc'[LoopThread] = "idle"
            THEN [loop EXCEPT !.log[Current].ran =
                                  Append(@, [eff |-> effect', after |-> stage'])]
            ELSE loop

LoopNext ==
    \/ \E e \in Events : event_arrives(e)
    \/ handler_calls
    \/ handler_returns
    \/ Acquire(LoopThread) /\ UNCHANGED loop
    \/ setup_start(LoopThread) /\ Logged
    \/ setup_adapter(LoopThread) /\ Logged
    \/ setup_device(LoopThread) /\ Logged
    \/ resize(LoopThread) /\ Logged
    \/ draw(LoopThread) /\ Logged
    \/ native_window_changes /\ UNCHANGED loop
    \/ inner_size_changes /\ UNCHANGED loop

LoopSpec == Init /\ [][LoopNext]_vars

(***************************************************************************)
(* The properties.                                                         *)
(***************************************************************************)

\* Thread t holds the lock: it is in its critical section, setup's awaits included
InCS(t) == pc[t] \in {"cs", "adapter", "device"}

\* This step is thread t running the body of `op` from the lock on
Runs(t, op) == pc[t] = "cs" /\ task[t].op = op /\ pc'[t] # "cs"

\* C1: once the stage is Ready it is Ready in every later state, whatever
\* setup, clean_surface, resize and draw steps follow in whatever interleaving.
StageNeverRegresses == [][stage.tag = "Ready" => stage'.tag = "Ready"]_vars

\* C1's case: teardown has run in Ready, the surface is gone and the stage is
\* still Ready.
ReadyAfterTeardown ==
    /\ effect.task.op = "clean_surface" /\ effect.before.tag = "Ready"
    /\ effect.before.inner.surface # None
    /\ stage.tag = "Ready" /\ stage.inner.surface = None

\* The adapter, device, queue and pipeline objects of a Ready stage
Resources(s) ==
    <<s.inner.adapter, s.inner.device, s.inner.queue, s.inner.vs_module,
      s.inner.fs_module, s.inner.pipeline_layout, s.inner.render_pipeline>>

\* C2: the adapter, device, queue and pipeline are created at most once, and
\* from the first Ready state on every step leaves their identity as it is.
ResourcesCreatedOnce ==
    /\ [](made.adapter <= 1 /\ made.device <= 1 /\ made.pipeline <= 1)
    /\ [][stage.tag = "Ready" =>
            stage'.tag = "Ready" /\ Resources(stage') = Resources(stage)]_vars

\* C2's case: after teardown, setup has stored a second surface, and the
\* resources are those of the first setup.
SecondSurfaceSameDevice ==
    /\ effect.task.op = "setup" /\ effect.branch = "ready_surface"
    /\ stage.tag = "Ready" /\ stage.inner.surface = 2
    /\ Resources(stage) = <<1, 1, 1, 1, 1, 1, 1>>

\* C3: the context holds a presentation chain exactly when it holds a surface.
ChainIffSurface ==
    /\ stage.tag = "Init" => held_chain(stage) = None
    /\ stage.tag = "Ready" => (held_chain(stage) # None <=> stage.inner.surface # None)

\* C4: in Ready with a surface, the chain held was created on that surface
\* and with the descriptor as it is now.
ChainTiedToSurface ==
    stage.tag = "Ready" /\ stage.inner.surface # None =>
        /\ stage.inner.swap_chain.surface = stage.inner.surface
        /\ stage.inner.swap_chain.desc = stage.inner.sc_desc

\* C5: a draw in Ready without a surface acquires no frame, submits nothing
\* and does not panic.
DrawWithoutSurfaceIsNoop ==
    [][\A t \in Threads :
        Runs(t, "draw") /\ stage.tag = "Ready" /\ stage.inner.surface = None =>
            effect'.calls = <<>> /\ ~crashed']_vars

\* C6: a draw in Init does not panic, makes no provider call and leaves the
\* stage, the surface and everything the provider made as they are.
DrawInInitIsNoop ==
    [][\A t \in Threads :
        Runs(t, "draw") /\ stage.tag = "Init" =>
            /\ ~crashed' /\ pc'[t] = "idle" /\ lock' = NoThread
            /\ effect'.calls = <<>>
            /\ stage' = stage /\ made' = made]_vars

\* C6's case: a draw has run in Init, before any setup got a surface.
DrewInInit ==
    /\ effect.task.op = "draw" /\ effect.before = StageInit
    /\ stage = StageInit /\ made.surface = 0 /\ ~crashed

\* C7: a setup that finds the stage Init and no native window leaves the stage
\* Init and creates nothing; so as long as no setup has found a window, the
\* stage is Init and the provider has made nothing.
SetupWithoutWindowStaysInit ==
    /\ [][\A t \in Threads :
            Runs(t, "setup") /\ stage.tag = "Init" /\ ~window.native =>
                /\ stage' = StageInit /\ made' = made /\ effect'.calls = <<>>
                /\ pc'[t] = "idle" /\ ~crashed']_vars
    /\ [](made.surface = 0 =>
            /\ stage = StageInit
            /\ made = [surface |-> 0, adapter |-> 0, device |-> 0, pipeline |-> 0,
                       swap_chain |-> 0])

\* C7's case: a setup has run in Init without a native window.
SetupRanWithoutWindow ==
    /\ effect.task.op = "setup" /\ effect.branch = "init_no_window"
    /\ effect.before = StageInit /\ stage = StageInit /\ made.surface = 0

\* C8: resize(W,H) in Ready with a surface leaves the descriptor with width W
\* and height H and everything else of it as it was, and stores a newly
\* created chain on the same surface with that descriptor; this on every
\* call, also when W and H are the descriptor's already.
ResizeRecreatesChain ==
    [][\A t \in Threads :
        Runs(t, "resize") /\ stage.tag = "Ready" /\ stage.inner.surface # None =>
            /\ stage'.tag = "Ready"
            /\ stage'.inner.surface = stage.inner.surface
            /\ stage'.inner.sc_desc =
                  [stage.inner.sc_desc EXCEPT !.width = task[t].size.width,
                                              !.height = task[t].size.height]
            /\ stage'.inner.swap_chain.surface = stage.inner.surface
            /\ stage'.inner.swap_chain.desc = stage'.inner.sc_desc
            /\ stage'.inner.swap_chain.id # stage.inner.swap_chain.id
            /\ made'.swap_chain = made.swap_chain + 1
            /\ effect'.calls = <<"create_swap_chain">>
            /\ Resources(stage') = Resources(stage)]_vars

\* C8's case: a resize to the size the descriptor already had has run, and the
\* chain held is another one than before.
ResizedTwiceSameSize ==
    /\ effect.task.op = "resize" /\ effect.before.tag = "Ready"
    /\ effect.before.inner.surface # None
    /\ effect.before.inner.swap_chain.id = 2
    /\ effect.before.inner.sc_desc.width = effect.task.size.width
    /\ effect.before.inner.sc_desc.height = effect.task.size.height
    /\ stage.inner.sc_desc = effect.before.inner.sc_desc
    /\ stage.inner.swap_chain.id = 3

\* C9: resize in Init, or in Ready without a surface, changes nothing: stage,
\* surface, descriptor and chain are as before and no chain is created.
ResizeWithoutSurfaceIsNoop ==
    [][\A t \in Threads :
        /\ Runs(t, "resize")
        /\ stage.tag = "Init" \/ stage.inner.surface = None
        => /\ stage' = stage /\ made' = made /\ effect'.calls = <<>>
           /\ ~crashed']_vars

\* C9's case: a resize to another size than the descriptor's has run in Ready
\* without a surface.
ResizedWithoutSurface ==
    /\ effect.task.op = "resize" /\ effect.before.tag = "Ready"
    /\ effect.before.inner.surface = None
    /\ effect.before.inner.sc_desc.width # effect.task.size.width
    /\ stage = effect.before

\* C10: at most one thread is in a critical section, and it is the holder of
\* the lock, setup's two awaits included; while a setup is suspended the stage
\* is still Init, so nobody sees a context half built; and the stage and the
\* provider's objects change only in a step of a thread that holds the lock.
MutualExclusion ==
    /\ [](/\ \A t \in Threads : InCS(t) => lock = t
          /\ Cardinality({t \in Threads : InCS(t)}) <= 1
          /\ \A t \in Threads : pc[t] \in {"adapter", "device"} => stage = StageInit)
    /\ [][stage' # stage \/ made' # made \/ effect' # effect =>
            /\ lock \in Threads /\ InCS(lock) /\ pc'[lock] # pc[lock]
            /\ \A u \in Threads \ {lock} : pc'[u] = pc[u]]_vars

\* C10's case: one thread is suspended at setup's request_adapter or
\* request_device with the lock, and the other is waiting for the lock.
SetupSuspendedOtherWaits ==
    \E t, u \in Threads :
        /\ pc[t] \in {"adapter", "device"} /\ lock = t
        /\ pc[u] = "wait" /\ task[u].op \in {"clean_surface", "resize", "draw"}

\* The branches in which a setup returns
SetupReturns == {"init_no_window", "setup_ok", "ready_surface", "ready_noop"}

\* C12: a setup in Ready with a surface changes nothing and calls nothing; and
\* a setup that runs right after a setup that returned, with the native window
\* there or not as that one found it, changes nothing.
SetupIdempotent ==
    /\ [][\A t \in Threads :
            Runs(t, "setup") /\ stage.tag = "Ready" /\ stage.inner.surface # None =>
                /\ stage' = stage /\ made' = made /\ effect'.calls = <<>>
                /\ pc'[t] = "idle" /\ ~crashed']_vars
    /\ [][\A t \in Threads :
            /\ Runs(t, "setup")
            /\ effect.task.op = "setup" /\ effect.branch \in SetupReturns
            /\ effect.branch = "init_no_window" => ~window.native
            /\ effect.branch = "ready_noop" /\ stage.inner.surface = None
                  => ~window.native
            => stage' = stage /\ made' = made /\ pc'[t] = "idle"]_vars

\* C12's case: a setup has run in Ready with a surface, right after the setup
\* that built the context.
SetupRanTwice ==
    /\ effect.task.op = "setup" /\ effect.branch = "ready_noop"
    /\ effect.before.tag = "Ready" /\ effect.before.inner.surface # None
    /\ stage = effect.before /\ made.surface = 1 /\ made.swap_chain = 1

\* The branches in which setup's expect panics
SetupPanics == {"adapter_panic", "device_panic"}

\* C13: when the adapter or the device request fails in setup, the process is
\* over there: the stage is Init as before, a Ready stage always holds every
\* resource, and no step of any task follows the failure.
SetupFailureAborts ==
    /\ [](effect.branch \in SetupPanics =>
            crashed /\ stage = StageInit /\ effect.before = StageInit)
    /\ [](stage.tag = "Ready" =>
            /\ \A i \in 1..Len(Resources(stage)) : Resources(stage)[i] # None
            /\ stage.inner.swap_chain.id # None)
    /\ [][effect.branch \in SetupPanics => UNCHANGED vars]_vars

\* C13's case: the device request has failed after the surface and the adapter
\* were made; none of them is in the context.
DeviceRequestFailed ==
    /\ crashed /\ effect.branch = "device_panic" /\ stage = StageInit
    /\ made.surface = 1 /\ made.adapter = 1 /\ made.device = 0

\* C15: a setup in Ready without a surface, the native window there, stores a
\* new surface and nothing else: the chain is the one held before, on the
\* surface it was created on, and descriptor and resources are untouched.
SetupStoresSurfaceOnly ==
    [][\A t \in Threads :
        /\ Runs(t, "setup")
        /\ stage.tag = "Ready" /\ stage.inner.surface = None /\ window.native
        => /\ stage'.tag = "Ready"
           /\ stage'.inner.surface # None
           /\ stage'.inner.surface = made'.surface
           /\ made' = [made EXCEPT !.surface = @ + 1]
           /\ stage'.inner.swap_chain = stage.inner.swap_chain
           /\ stage'.inner.sc_desc = stage.inner.sc_desc
           /\ Resources(stage') = Resources(stage)
           /\ effect'.calls = <<"create_surface">>]_vars

\* C15's case: setup has stored surface 2 and the chain held is still the one
\* created on surface 1.
NewSurfaceOldChain ==
    /\ effect.task.op = "setup" /\ effect.before.tag = "Ready"
    /\ effect.before.inner.surface = None
    /\ stage.inner.surface = 2
    /\ stage.inner.swap_chain = effect.before.inner.swap_chain
    /\ stage.inner.swap_chain.surface = 1

\* C17: clean_surface in Ready sets the surface to None and leaves the stage
\* Ready with the same resources, descriptor and chain; in Init, and in Ready
\* without a surface, it changes nothing.
TeardownTakesSurface ==
    [][\A t \in Threads :
        Runs(t, "clean_surface") =>
            /\ stage'.tag = stage.tag /\ made' = made /\ ~crashed'
            /\ effect'.calls = <<>> /\ pc'[t] = "idle"
            /\ stage.tag = "Init" => stage' = stage
            /\ stage.tag = "Ready" =>
                  /\ stage'.inner.surface = None
                  /\ Resources(stage') = Resources(stage)
                  /\ stage'.inner.sc_desc = stage.inner.sc_desc
                  /\ stage'.inner.swap_chain = stage.inner.swap_chain
                  /\ stage.inner.surface = None => stage' = stage]_vars

\* C17's case: clean_surface has run a second time, in Ready without a surface.
TeardownRanTwice ==
    /\ effect.task.op = "clean_surface" /\ effect.before.tag = "Ready"
    /\ effect.before.inner.surface = None /\ stage = effect.before

\* This step is thread t's setup storing a surface in the context
StoresSurface(t) ==
    /\ InCS(t) /\ task[t].op = "setup" /\ pc'[t] = "idle"
    /\ stage' # stage

\* C16 as claimed: the setup that stores a surface after a dropped resize
\* leaves the descriptor, and the chain frames are drawn on, with the width
\* and height the window has at that time.
SetupAfterDropUsesWindowSize ==
    [][\A t \in Threads :
        StoresSurface(t) /\ Dropped =>
            /\ stage'.inner.sc_desc.width = window.size.width
            /\ stage'.inner.sc_desc.height = window.size.height
            /\ stage'.inner.swap_chain.desc = stage'.inner.sc_desc]_vars

\* C16 as amended: after a dropped resize, the setup that leaves Init builds
\* the descriptor and the chain with the window's size at that time; the
\* setup that stores a surface in Ready leaves the descriptor and the chain as
\* they were before the dropped resize.
SetupAfterDropSizes ==
    [][\A t \in Threads :
        StoresSurface(t) /\ Dropped =>
            IF stage.tag = "Init"
            THEN /\ stage'.inner.sc_desc.width = window.size.width
                 /\ stage'.inner.sc_desc.height = window.size.height
                 /\ stage'.inner.swap_chain.desc = stage'.inner.sc_desc
            ELSE /\ stage'.inner.sc_desc = stage.inner.sc_desc
                 /\ stage'.inner.swap_chain = stage.inner.swap_chain]_vars

\* C16's case: a resize was dropped in Init, and the setup after it has built
\* the context with the window's size.
SetupRanAfterDrop ==
    /\ effect.dropped /\ effect.branch = "setup_ok"
    /\ stage.tag = "Ready"
    /\ stage.inner.sc_desc.width = window.size.width
    /\ stage.inner.swap_chain.id = 1

\* The branches in which an expect finds a failed capability call
Failures == {"adapter_panic", "device_panic", "frame_panic"}

\* C20: every dispatched operation eventually takes the lock and returns with
\* the lock released, under any interleaving, unless a capability call fails
\* and the panic ends the process; the lock is only ever taken free, by a task
\* waiting for it; and while setup is suspended in request_adapter or
\* request_device it holds the lock and no other task is in its critical
\* section, so a call that never returns stalls every other operation.
ProgressAndStall ==
    /\ \A t \in Threads : (pc[t] = "wait") ~> (pc[t] = "idle" \/ crashed)
    /\ [][\A t \in Threads :
            pc[t] = "wait" /\ pc'[t] # "wait" => lock' = t /\ pc'[t] = "cs"]_vars
    /\ [](\A t \in Threads : pc[t] = "idle" => lock # t)
    /\ [](crashed => effect.branch \in Failures)
    /\ [][\A t \in Threads :
            lock' = t /\ lock # t => lock = NoThread /\ pc[t] = "wait"]_vars
    /\ [](\A t \in Threads :
            pc[t] \in {"adapter", "device"} =>
                /\ lock = t /\ task[t].op = "setup"
                /\ \A u \in Threads \ {t} : ~InCS(u))
    /\ [][\A t \in Threads :
            pc[t] \in {"adapter", "device"} /\ pc'[t] = pc[t] =>
                /\ lock' = t
                /\ UNCHANGED <<stage, made, effect>>
                /\ \A u \in Threads \ {t} : pc[u] = "wait" => pc'[u] = "wait"]_vars

\* C20's case: setup is suspended in request_device with the lock held while
\* every other task has dispatched an operation and waits for the lock.
SetupAwaitsDeviceOthersWait ==
    \E t \in Threads :
        /\ pc[t] = "device" /\ lock = t
        /\ \A u \in Threads \ {t} : pc[u] = "wait"
        /\ \E u \in Threads \ {t} : task[u].op = "draw"

(***************************************************************************)
(* The properties of the event loop, under LoopSpec.                       *)
(***************************************************************************)

\* The operations an event's handler has run to their end, in order
Ops(x) == [i \in 1..Len(x.ran) |-> x.ran[i].eff.task.op]

\* The operations the handler of an event runs, in order
HandlerOps(e) == [i \in 1..Len(handler(e)) |-> handler(e)[i].op]

\* How many frames the handler of a logged event has submitted
Submitted(x) ==
    Cardinality({<<i, j>> \in (1..Len(x.ran)) \X (1..Len(frame_calls)) :
                    /\ j <= Len(x.ran[i].eff.calls)
                    /\ x.ran[i].eff.calls[j] = "submit"})

\* C11: operations run in the order their events arrived: when an event
\* arrives, every operation of the events before it has returned and the lock
\* is free; an operation in flight is the next one of the latest event; each
\* handled event ran exactly its handler's operations, in order; and nothing
\* changed the stage between one event's handler and the next.
EventOrder ==
    /\ [](\A i \in 1..Len(loop.log) :
            /\ i < Len(loop.log) => loop.log[i].done
            /\ loop.log[i].done => Ops(loop.log[i]) = HandlerOps(loop.log[i].ev)
            /\ i > 1 => loop.log[i].before = loop.log[i-1].after)
    /\ [](\A t \in Threads :
            pc[t] # "idle" =>
                /\ t = LoopThread /\ ~LoopIdle /\ ~loop.log[Current].done
                /\ Len(loop.log[Current].ran) < Len(handler(loop.event))
                /\ task[t].op =
                      HandlerOps(loop.event)[Len(loop.log[Current].ran) + 1])
    /\ [][Len(loop'.log) > Len(loop.log) =>
            /\ lock = NoThread /\ pc[LoopThread] = "idle" /\ loop.todo = <<>>
            /\ loop.log # <<>> => loop.log[Current].done]_vars

\* C11's case: the first event's setup has returned, and the draw of the second
\* event, a Resumed, holds the lock.
SecondEventHoldsLock ==
    /\ Len(loop.log) = 2
    /\ loop.log[1].done /\ Ops(loop.log[1]) = <<"setup">>
    /\ loop.log[2].ev.kind = "Resumed" /\ Ops(loop.log[2]) = <<"setup">>
    /\ pc[LoopThread] = "cs" /\ task[LoopThread].op = "draw" /\ lock = LoopThread

\* C14: the scenario, event by event.  An Init whose setup found no native
\* window leaves the stage Init.  A Resumed whose setup built the context
\* leaves the stage Ready with a surface and submits exactly one frame.  A
\* Resized(800,600) in Ready with a surface leaves the descriptor 800x600 and
\* another chain.  A CloseRequested runs no operation, leaves the stage as it
\* is and sets ControlFlow::Exit, after which no event is handled and nothing
\* of the context changes.
Scenario ==
    /\ [](\A i \in 1..Len(loop.log) :
            LET x == loop.log[i] IN
            x.done =>
                /\ x.ev.kind = "Init" /\ x.ran[1].eff.branch = "init_no_window"
                     => x.after = StageInit /\ Submitted(x) = 0
                /\ x.ev.kind = "Resumed" /\ x.ran[1].eff.branch = "setup_ok"
                     => /\ x.after.tag = "Ready" /\ x.after.inner.surface # None
                        /\ Submitted(x) = 1
                /\ x.ev.kind = "Resized" /\ x.before.tag = "Ready"
                     => /\ x.after.inner.sc_desc =
                              [x.before.inner.sc_desc EXCEPT
                                   !.width = x.ev.size.width,
                                   !.height = x.ev.size.height]
                        /\ x.after.inner.swap_chain.desc = x.after.inner.sc_desc
                        /\ x.after.inner.swap_chain.id # x.before.inner.swap_chain.id
                        /\ x.ran[1].eff.calls = <<"create_swap_chain">>
                /\ x.ev.kind = "CloseRequested"
                     => /\ x.ran = <<>> /\ x.after = x.before
                        /\ loop.control_flow = "Exit" /\ i = Len(loop.log))
    /\ [][loop.control_flow = "Exit" =>
            UNCHANGED <<stage, lock, pc, task, made, effect>>
            /\ Len(loop'.log) = Len(loop.log)]_vars

\* C14's case: the four events of the scenario have been handled, in order.
ScenarioRan ==
    /\ Len(loop.log) = 4 /\ loop.control_flow = "Exit" /\ LoopIdle
    /\ loop.log[1].ev.kind = "Init"
    /\ loop.log[1].ran[1].eff.branch = "init_no_window"
    /\ loop.log[1].after = StageInit
    /\ loop.log[2].ev.kind = "Resumed"
    /\ loop.log[2].ran[1].eff.branch = "setup_ok"
    /\ loop.log[2].ran[2].eff.branch = "frame"
    /\ loop.log[3].ev.kind = "Resized" /\ loop.log[3].ev.size.width = 800
    /\ loop.log[3].ev.size.height = 600
    /\ loop.log[3].before.inner.sc_desc.width = 640
    /\ loop.log[4].ev.kind = "CloseRequested" /\ loop.log[4].done
    /\ stage.inner.sc_desc.width = 800 /\ stage.inner.sc_desc.height = 600
    /\ stage.inner.swap_chain.id = 2

\* C18: a handler runs to its end before the next event's begins; in Resumed
\* and RedrawRequested the draw starts from the very stage the handler's own
\* setup left, the latest critical section before it, and these handlers run
\* setup then draw and nothing else.
HandlerRunsToCompletion ==
    /\ [][Runs(LoopThread, "draw") =>
            /\ loop.event.kind \in {"Resumed", "RedrawRequested"}
            /\ Len(loop.log[Current].ran) = 1
            /\ loop.log[Current].ran[1].eff = effect
            /\ effect.task.op = "setup"
            /\ loop.log[Current].ran[1].after = stage]_vars
    /\ [](\A i \in 1..Len(loop.log) :
            LET x == loop.log[i] IN
            /\ i < Len(loop.log) => x.done
            /\ x.done /\ x.ev.kind \in {"Resumed", "RedrawRequested"} =>
                  /\ Ops(x) = <<"setup", "draw">>
                  /\ x.ran[2].eff.before = x.ran[1].after
                  /\ x.after = x.ran[2].after)

\* C18's case: a RedrawRequested has run its setup, which built the context,
\* and then its draw, which submitted a frame.
RedrawRanSetupThenDraw ==
    \E i \in 1..Len(loop.log) :
        /\ loop.log[i].ev.kind = "RedrawRequested" /\ loop.log[i].done
        /\ loop.log[i].ran[1].eff.branch = "setup_ok"
        /\ loop.log[i].ran[2].eff.branch = "frame"

\* C19: Suspended runs no operation and leaves the stage as it is; so under
\* the event loop a Ready stage always has its surface, setup's Ready branch
\* never stores a surface, and at most one surface is ever created.
SuspendedKeepsSurface ==
    /\ [](\A i \in 1..Len(loop.log) :
            loop.log[i].ev.kind = "Suspended" =>
                loop.log[i].ran = <<>> /\ loop.log[i].after = loop.log[i].before)
    /\ [](loop.event.kind = "Suspended" =>
            loop.todo = <<>> /\ pc[LoopThread] = "idle")
    /\ [](stage.tag = "Ready" => stage.inner.surface # None)
    /\ [](effect.task.op = "setup" => effect.branch # "ready_surface")
    /\ [](made.surface <= 1)
    /\ [][stage.tag = "Ready" =>
            stage'.tag = "Ready" /\ stage'.inner.surface = stage.inner.surface]_vars

\* C19's case: a Suspended was handled in Ready, and the Resumed after it ran
\* a setup that found the surface in place and a draw that submitted a frame.
SuspendedThenResumed ==
    \E i \in 1..Len(loop.log) :
        /\ i < Len(loop.log)
        /\ loop.log[i].ev.kind = "Suspended" /\ loop.log[i].done
        /\ loop.log[i].before.tag = "Ready"
        /\ loop.log[i+1].ev.kind = "Resumed" /\ loop.log[i+1].done
        /\ loop.log[i+1].ran[1].eff.branch = "ready_noop"
        /\ loop.log[i+1].ran[2].eff.branch = "frame"
====
